---- MODULE Spec2Model ----
(***************************************************************************)
(* Model of src/scraper.py of Google-Ad-Scrapper:                          *)
(*   - scrape_ads_count(page, url): the single-shot page extractor, as an  *)
(*     operator over a snapshot of what each Playwright call on the page   *)
(*     returns or raises;                                                  *)
(*   - process_csv(input_path, output_path, progress_callback): the batch  *)
(*     loop from the first progress callback (line 73) to the final one    *)
(*     (line 154), one action per statement that calls out of the module.  *)
(* A Python str is the sequence of its code points; every call into        *)
(* Playwright, pandas or the progress callback either returns or raises,   *)
(* chosen nondeterministically.                                            *)
(***************************************************************************)
EXTENDS Integers, Sequences, FiniteSets, TLC

VARIABLES
    rows,              \* df[url_col]: the URL cell of every input row, in order
    progress_callback, \* the argument progress_callback is set (FALSE: None, the default)
    pc,                \* position of process_csv
    nextRow,           \* position of the df.iterrows() iterator (rows consumed)
    index,             \* loop variable `index` (0-based row label)
    url,               \* loop variable `url`
    attempt,           \* loop variable `attempt` of the retry loop
    result,            \* local `result`
    brk,               \* a `break` of the retry loop is pending through `finally`
    extracted_counts,  \* local list `extracted_counts`
    browser,           \* "none" | "open" | "closed" | "stopped": the launched browser
    openPages,         \* number of pages of the context that are open
    page,              \* what the calls on the current attempt's page did so far
    events,            \* progress_callback invocations, in order
    raisedAt,          \* the statement whose exception left process_csv ("" if none)
    written,           \* df.to_csv has written the output file
    attemptLog,        \* history: result assigned by each finished attempt of this row
    retryDelays,       \* history: time.sleep(2) calls made for this row
    rowPages,          \* history: context.new_page() calls made for this row
    politeDelays,      \* history: time.sleep(1) calls made in the batch
    rowOf,             \* history: for each entry of extracted_counts, the row index that appended it
    launchCalls,       \* history: p.chromium.launch calls
    closeCalls,        \* history: browser.close calls
    totalPages,        \* history: context.new_page() calls made in the batch
    totalRetryDelays,  \* history: time.sleep(2) calls made in the batch
    sPage,             \* scrape_ads_count: the page it is called on
    sPc,               \* scrape_ads_count: "idle" | "call" | "returned"
    sResult            \* scrape_ads_count: its return value

csvVars == <<rows, progress_callback, pc, nextRow, index, url, attempt, result, brk,
             extracted_counts,
             browser, openPages, page, events, raisedAt, written, attemptLog,
             retryDelays, rowPages, politeDelays, rowOf, launchCalls, closeCalls,
             totalPages, totalRetryDelays>>
scrapeVars == <<sPage, sPc, sResult>>
vars == <<csvVars, scrapeVars>>

----------------------------------------------------------------------------
(* Python strings *)

\* A Python str is modelled as the sequence of its code points (ord of each
\* character), so that every Unicode character can occur in it, no character
\* depends on how a tool reads this file, and a str is told apart from a value
\* that is no str (NaN, "did not raise").

\* the ASCII characters U+0020 to U+005F, in order
PrintableLow == " !\"#$%&'()*+,-./0123456789:;<=>?@ABCDEFGHIJKLMNOPQRSTUVWXYZ[\\]^_"

\* the ASCII characters U+0061 to U+007E, in order (U+0060 cannot be written
\* in a string literal of this module)
PrintableHigh == "abcdefghijklmnopqrstuvwxyz{|}~"

\* the position of the character c in the string chars
IndexIn(chars, c) == CHOOSE i \in 1..Len(chars) : SubSeq(chars, i, i) = c

\* ord(c) of a one-character string literal of this module
Ord(c) ==
    CASE c = "\t" -> 9
      [] c = "\n" -> 10
      [] c = "\f" -> 12
      [] c = "\r" -> 13
      [] \E i \in 1..Len(PrintableHigh) : SubSeq(PrintableHigh, i, i) = c ->
           96 + IndexIn(PrintableHigh, c)
      [] OTHER -> 31 + IndexIn(PrintableLow, c)

RECURSIVE PyFrom(_, _)
PyFrom(lit, i) ==
    IF i > Len(lit) THEN <<>> ELSE <<Ord(SubSeq(lit, i, i))>> \o PyFrom(lit, i + 1)

\* the Python str written as the ASCII literal lit
Py(lit) == PyFrom(lit, 1)

\* the code points c with chr(c).isspace(), the characters str.strip() removes:
\* \t \n \v \f \r, U+001C..U+001F, space, U+0085, U+00A0, U+1680,
\* U+2000..U+200A, U+2028, U+2029, U+202F, U+205F, U+3000
WhiteSpace ==
    (9..13) \cup (28..32) \cup {133, 160, 5760} \cup (8192..8202)
        \cup {8232, 8233, 8239, 8287, 12288}

\* chr(c).isspace()
IsSpace(c) == c \in WhiteSpace

\* str.lstrip()
RECURSIVE LStrip(_)
LStrip(s) ==
    IF Len(s) > 0 /\ IsSpace(s[1]) THEN LStrip(SubSeq(s, 2, Len(s))) ELSE s

\* str.rstrip()
RECURSIVE RStrip(_)
RStrip(s) ==
    IF Len(s) > 0 /\ IsSpace(s[Len(s)])
    THEN RStrip(SubSeq(s, 1, Len(s) - 1)) ELSE s

\* str.strip()
Strip(s) == RStrip(LStrip(s))

\* str.startswith(prefix)
StartsWith(s, prefix) ==
    Len(s) >= Len(prefix) /\ SubSeq(s, 1, Len(prefix)) = prefix

\* sub in s
Contains(s, sub) ==
    \E i \in 1..(Len(s) - Len(sub) + 1) : SubSeq(s, i, i + Len(sub) - 1) = sub

----------------------------------------------------------------------------
(* The string literals of src/scraper.py *)

\* line 91: "http"
HttpScheme == Py("http")

\* lines 24, 114: "0 ads"
ZeroAds == Py("0 ads")

\* lines 25, 31, 37, 115, 125: "no ads"
NoAds == Py("no ads")

\* lines 36, 128: "Google Ads"
ProductName == Py("Google Ads")

\* line 38: "Error: Element not found"
ElementNotFound == Py("Error: Element not found")

\* lines 40, 134: f"Error: {str(e)}"
ErrorPrefix == Py("Error: ")

\* line 43: f"Error loading page: {str(e)}"
LoadErrorPrefix == Py("Error loading page: ")

\* line 92: "Invalid URL"
InvalidUrlOutcome == Py("Invalid URL")

\* line 97: the value `result` is given before the retry loop
Placeholder == Py("Error: Element not found")

\* line 129: "Error: Element not found (Timeout)"
ElementNotFoundTimeout == Py("Error: Element not found (Timeout)")

\* line 131: "Error: Page load failed"
PageLoadFailed == Py("Error: Page load failed")

\* the empty str; also the value of a local or of a page field not assigned yet
Empty == <<>>

----------------------------------------------------------------------------
(* Bounds and input domains *)

MaxRows == 2

\* pandas reads an empty or missing cell as the float NaN; pd.isna(url) is true
\* of it. It is no str: no sequence of code points holds a negative number.
NaN == <<-1>>

Urls == {NaN, Py("http://a.test/x"), Py("ftp://a.test/x"), Py("htt")}

\* the text "0 ads" inside white space of every kind, ASCII and not: before it
\* \f, \r, space, U+00A0, U+1680, U+2003, U+202F; after it \n, \v,
\* U+001C..U+001F, U+0085, U+2028, U+2029, U+205F, U+3000
PaddedZeroAds ==
    <<12, 13, 32, 160, 5760, 8195, 8239>> \o Py("0 ads")
        \o <<10, 11, 28, 29, 30, 31, 133, 8232, 8233, 8287, 12288>>

\* a count whose digits are grouped by U+00A0, between a tab and a space: the
\* white space inside the text stays
PaddedTenAds == <<9>> \o Py("10") \o <<160>> \o Py("000 ads ")

\* PaddedTenAds.strip()
TenAds == Py("10") \o <<160>> \o Py("000 ads")

\* a count text with no white space around it
ApproximatelyAds == Py("Approximately 1,200 ads")

\* locator.inner_text() values of the count element
RawTexts == {ZeroAds, PaddedZeroAds, ApproximatelyAds, PaddedTenAds}

\* page.title() values
Titles ==
    {Py("Google Ads Transparency Center"), Py("About Google Ads"),
     Py("Google Accounts"), Empty}

\* an exception message
TargetClosed == Py("Target closed")

\* str(e) of an exception raised by a call on the page
ExcMsgs == {TargetClosed}

\* in an ...Exc field: the call returned without raising. It is no str, so an
\* exception with an empty message is told apart from it.
NoExc == <<-2>>

----------------------------------------------------------------------------
(* The URL check *)

\* pd.isna(url)
IsNa(u) == u = NaN

\* variant of InvalidUrl: only the pd.isna test, the scheme test dropped
InvalidUrl_OnlyNa(u) == IsNa(u)

\* pd.isna(url) or not str(url).startswith("http")
InvalidUrl(u) == IsNa(u) \/ ~StartsWith(u, HttpScheme)

----------------------------------------------------------------------------
(* The state of a page, as the outcome of each call the code makes on it *)

FreshPage ==
    [gotoExc |-> NoExc,      \* page.goto: NoExc, or str(e) of what it raises
     locExc |-> NoExc,       \* page.locator(".ads-count-searchable"): NoExc or str(e)
     visible |-> FALSE,      \* locator.wait_for(state="visible") returns (FALSE: it raises)
     textExc |-> FALSE,      \* locator.inner_text() raises
     raw |-> Empty,             \* locator.inner_text() value
     noAdsExc |-> NoExc,     \* page.get_by_text("No ads found").count(): NoExc or str(e)
     noAdsCount |-> 0,       \* page.get_by_text("No ads found").count() value
     titleExc |-> NoExc,     \* page.title(): NoExc or str(e)
     title |-> Empty,           \* page.title() value
     consulted |-> FALSE]    \* history: a fallback check (get_by_text, title) was made

NoAdsCounts == {0, 1, 2}

Pages ==
    [gotoExc : {NoExc} \cup ExcMsgs, locExc : {NoExc} \cup ExcMsgs,
     visible : BOOLEAN, textExc : BOOLEAN,
     raw : RawTexts, noAdsExc : {NoExc} \cup ExcMsgs, noAdsCount : NoAdsCounts,
     titleExc : {NoExc} \cup ExcMsgs, title : Titles, consulted : {FALSE}]

----------------------------------------------------------------------------
(* scrape_ads_count(page, url), src/scraper.py:8-43 *)

\* variant of CountText: the zero-count test on the text before .strip()
CountText_RawCompare(raw) == IF raw = ZeroAds THEN NoAds ELSE Strip(raw)

\* lines 23-27: the count element is visible and its text was read
CountText(raw) == IF Strip(raw) = ZeroAds THEN NoAds ELSE Strip(raw)

\* variant of ScrapeFallback: the title is looked at before the "No ads found" text
ScrapeFallback_TitleFirst(pg) ==
    IF pg.titleExc # NoExc THEN ErrorPrefix \o pg.titleExc
    ELSE IF ~Contains(pg.title, ProductName) THEN ElementNotFound
    ELSE IF pg.noAdsExc # NoExc THEN ErrorPrefix \o pg.noAdsExc
    ELSE NoAds

\* lines 28-38: the handler of the inner try; an exception raised inside it is
\* caught at line 39
ScrapeFallback(pg) ==
    IF pg.noAdsExc # NoExc THEN ErrorPrefix \o pg.noAdsExc
    ELSE IF pg.noAdsCount > 0 THEN NoAds
    ELSE IF pg.titleExc # NoExc THEN ErrorPrefix \o pg.titleExc
    ELSE IF Contains(pg.title, ProductName) THEN NoAds
    ELSE ElementNotFound

\* line 15 and 42-43: page.goto; line 20 and 39-40: page.locator, inside the
\* try of line 19 but outside the one of line 21, so what it raises skips the
\* fallback checks; lines 21-38 otherwise
ScrapeAdsCount(pg) ==
    IF pg.gotoExc # NoExc THEN LoadErrorPrefix \o pg.gotoExc
    ELSE IF pg.locExc # NoExc THEN ErrorPrefix \o pg.locExc
    ELSE IF pg.visible /\ ~pg.textExc THEN CountText(pg.raw)
    ELSE ScrapeFallback(pg)

\* one call of scrape_ads_count on the page sPage
ScrapeCall ==
    /\ sPc = "call"
    /\ sResult' = ScrapeAdsCount(sPage)
    /\ sPc' = "returned"
    /\ UNCHANGED <<sPage, csvVars>>

ScrapeInit == sPage \in Pages /\ sPc = "call" /\ sResult = Empty

ScrapeIdle == sPage = FreshPage /\ sPc = "idle" /\ sResult = Empty

----------------------------------------------------------------------------
(* process_csv, src/scraper.py:73-156 *)

MaxRetries == 3

RECURSIVE SeqsUpTo(_, _)
SeqsUpTo(S, k) ==
    IF k = 0 THEN {<<>>}
    ELSE SeqsUpTo(S, k - 1) \cup
         {Append(q, x) : q \in {r \in SeqsUpTo(S, k - 1) : Len(r) = k - 1}, x \in S}

\* an exception leaves process_csv at the statement `stage`; leaving the
\* `with sync_playwright()` block (line 82) on the way stops the driver and
\* with it a browser that is still open
Raise(stage) ==
    /\ pc' = "raised"
    /\ raisedAt' = stage
    /\ browser' = IF browser = "open" THEN "stopped" ELSE browser

Continue(next) ==
    /\ pc' = next
    /\ UNCHANGED <<raisedAt, browser>>

Event(current, kind) == [current |-> current, total |-> Len(rows), kind |-> kind]

CsvInit ==
    /\ rows \in SeqsUpTo(Urls, MaxRows)
    /\ progress_callback \in BOOLEAN
    /\ pc = "start"
    /\ nextRow = 0
    /\ index = 0
    /\ url = Empty
    /\ attempt = 0
    /\ result = Empty
    /\ brk = FALSE
    /\ extracted_counts = <<>>
    /\ browser = "none"
    /\ openPages = 0
    /\ page = FreshPage
    /\ events = <<>>
    /\ raisedAt = ""
    /\ written = FALSE
    /\ attemptLog = <<>>
    /\ retryDelays = 0
    /\ rowPages = 0
    /\ politeDelays = 0
    /\ rowOf = <<>>
    /\ launchCalls = 0
    /\ closeCalls = 0
    /\ totalPages = 0
    /\ totalRetryDelays = 0

\* the state of process_csv while only scrape_ads_count is exercised
CsvIdle ==
    /\ rows = <<>>
    /\ progress_callback = FALSE
    /\ pc = "idle"
    /\ nextRow = 0
    /\ index = 0
    /\ url = Empty
    /\ attempt = 0
    /\ result = Empty
    /\ brk = FALSE
    /\ extracted_counts = <<>>
    /\ browser = "none"
    /\ openPages = 0
    /\ page = FreshPage
    /\ events = <<>>
    /\ raisedAt = ""
    /\ written = FALSE
    /\ attemptLog = <<>>
    /\ retryDelays = 0
    /\ rowPages = 0
    /\ politeDelays = 0
    /\ rowOf = <<>>
    /\ launchCalls = 0
    /\ closeCalls = 0
    /\ totalPages = 0
    /\ totalRetryDelays = 0

\* lines 73-74: progress_callback(0, len(df), "Found ...") if a callback was
\* passed
ProgressStart ==
    /\ pc = "start"
    /\ IF progress_callback
       THEN /\ events' = Append(events, Event(0, "Found"))
            /\ \/ Continue("playwright")
               \/ Raise("progress_callback")
       ELSE /\ UNCHANGED events
            /\ Continue("playwright")
    /\ UNCHANGED progress_callback
    /\ UNCHANGED <<rows, nextRow, index, url, attempt, result, brk, extracted_counts,
                   openPages, page, written, attemptLog, retryDelays, rowPages,
                   politeDelays, rowOf, launchCalls, closeCalls, scrapeVars>>
    /\ UNCHANGED <<totalPages, totalRetryDelays>>

\* line 82: with sync_playwright() as p: entering the block starts the driver
EnterPlaywright ==
    /\ pc = "playwright"
    /\ \/ Continue("launch")
       \/ Raise("sync_playwright")
    /\ UNCHANGED <<rows, progress_callback, nextRow, index, url, attempt, result, brk,
                   extracted_counts, openPages, page, events, written, attemptLog,
                   retryDelays, rowPages, politeDelays, rowOf, launchCalls, closeCalls,
                   scrapeVars>>
    /\ UNCHANGED <<totalPages, totalRetryDelays>>

\* line 83: browser = p.chromium.launch(headless=True)
Launch ==
    /\ pc = "launch"
    /\ launchCalls' = launchCalls + 1
    /\ \/ /\ browser' = "open"
          /\ pc' = "new_context"
          /\ UNCHANGED raisedAt
       \/ Raise("launch")
    /\ UNCHANGED <<rows, progress_callback, nextRow, index, url, attempt, result, brk,
                   extracted_counts, openPages, page, events, written, attemptLog,
                   retryDelays, rowPages, politeDelays, rowOf, closeCalls, scrapeVars>>
    /\ UNCHANGED <<totalPages, totalRetryDelays>>

\* line 84: context = browser.new_context()
NewContext ==
    /\ pc = "new_context"
    /\ \/ Continue("for_row")
       \/ Raise("new_context")
    /\ UNCHANGED <<rows, progress_callback, nextRow, index, url, attempt, result, brk,
                   extracted_counts, openPages, page, events, written, attemptLog,
                   retryDelays, rowPages, politeDelays, rowOf, launchCalls, closeCalls,
                   scrapeVars>>
    /\ UNCHANGED <<totalPages, totalRetryDelays>>

\* variant of ForRow: the loop ends one row early
ForRow_StopEarly ==
    /\ pc = "for_row"
    /\ IF nextRow + 1 < Len(rows)
       THEN /\ index' = nextRow
            /\ nextRow' = nextRow + 1
            /\ url' = rows[nextRow + 1]
            /\ attemptLog' = <<>>
            /\ retryDelays' = 0
            /\ rowPages' = 0
            /\ Continue("row_progress")
       ELSE /\ Continue("browser_close")
            /\ UNCHANGED <<index, nextRow, url, attemptLog, retryDelays, rowPages>>
    /\ UNCHANGED progress_callback
    /\ UNCHANGED <<rows, attempt, result, brk, extracted_counts, openPages, page,
                   events, written, politeDelays, rowOf, launchCalls, closeCalls,
                   scrapeVars>>
    /\ UNCHANGED <<totalPages, totalRetryDelays>>

\* lines 86-87: the next (index, row) of df.iterrows(), or the end of the loop
ForRow ==
    /\ pc = "for_row"
    /\ IF nextRow < Len(rows)
       THEN /\ index' = nextRow
            /\ nextRow' = nextRow + 1
            /\ url' = rows[nextRow + 1]
            /\ attemptLog' = <<>>
            /\ retryDelays' = 0
            /\ rowPages' = 0
            /\ Continue("row_progress")
       ELSE /\ Continue("browser_close")
            /\ UNCHANGED <<index, nextRow, url, attemptLog, retryDelays, rowPages>>
    /\ UNCHANGED progress_callback
    /\ UNCHANGED <<rows, attempt, result, brk, extracted_counts, openPages, page,
                   events, written, politeDelays, rowOf, launchCalls, closeCalls,
                   scrapeVars>>
    /\ UNCHANGED <<totalPages, totalRetryDelays>>

\* variant of RowProgress: the 0-based index is reported instead of index + 1
RowProgress_ZeroBased ==
    /\ pc = "row_progress"
    /\ IF progress_callback
       THEN /\ events' = Append(events, Event(index, "Processing"))
            /\ \/ Continue("validate")
               \/ Raise("progress_callback")
       ELSE /\ UNCHANGED events
            /\ Continue("validate")
    /\ UNCHANGED progress_callback
    /\ UNCHANGED <<rows, nextRow, index, url, attempt, result, brk, extracted_counts,
                   openPages, page, written, attemptLog, retryDelays, rowPages,
                   politeDelays, rowOf, launchCalls, closeCalls, scrapeVars>>
    /\ UNCHANGED <<totalPages, totalRetryDelays>>

\* lines 88-89: progress_callback(index + 1, len(df), "Processing ...") if a
\* callback was passed
RowProgress ==
    /\ pc = "row_progress"
    /\ IF progress_callback
       THEN /\ events' = Append(events, Event(index + 1, "Processing"))
            /\ \/ Continue("validate")
               \/ Raise("progress_callback")
       ELSE /\ UNCHANGED events
            /\ Continue("validate")
    /\ UNCHANGED progress_callback
    /\ UNCHANGED <<rows, nextRow, index, url, attempt, result, brk, extracted_counts,
                   openPages, page, written, attemptLog, retryDelays, rowPages,
                   politeDelays, rowOf, launchCalls, closeCalls, scrapeVars>>
    /\ UNCHANGED <<totalPages, totalRetryDelays>>

\* variant of Validate: an invalid row is skipped without recording an outcome
Validate_SkipInvalid ==
    /\ pc = "validate"
    /\ IF InvalidUrl(url)
       THEN /\ Continue("for_row")
            /\ UNCHANGED <<attempt, result>>
       ELSE /\ result' = Placeholder
            /\ attempt' = 0
            /\ Continue("new_page")
    /\ UNCHANGED <<extracted_counts, rowOf>>
    /\ UNCHANGED progress_callback
    /\ UNCHANGED <<rows, nextRow, index, url, brk, openPages, page, events, written,
                   attemptLog, retryDelays, rowPages, politeDelays, launchCalls,
                   closeCalls, scrapeVars>>
    /\ UNCHANGED <<totalPages, totalRetryDelays>>

\* lines 91-99: the URL check; an invalid row is recorded and skipped, a valid
\* one enters the retry loop with attempt = 0
Validate ==
    /\ pc = "validate"
    /\ IF InvalidUrl(url)
       THEN /\ extracted_counts' = Append(extracted_counts, InvalidUrlOutcome)
            /\ rowOf' = Append(rowOf, index)
            /\ Continue("for_row")
            /\ UNCHANGED <<attempt, result>>
       ELSE /\ result' = Placeholder
            /\ attempt' = 0
            /\ Continue("new_page")
            /\ UNCHANGED <<extracted_counts, rowOf>>
    /\ UNCHANGED progress_callback
    /\ UNCHANGED <<rows, nextRow, index, url, brk, openPages, page, events, written,
                   attemptLog, retryDelays, rowPages, politeDelays, launchCalls,
                   closeCalls, scrapeVars>>
    /\ UNCHANGED <<totalPages, totalRetryDelays>>

\* line 100: page = context.new_page(), outside the try statement
NewPage ==
    /\ pc = "new_page"
    /\ \/ /\ openPages' = openPages + 1
          /\ rowPages' = rowPages + 1
          /\ totalPages' = totalPages + 1
          /\ page' = FreshPage
          /\ brk' = FALSE
          /\ Continue("goto")
       \/ /\ Raise("new_page")
          /\ UNCHANGED <<openPages, rowPages, totalPages, page, brk>>
    /\ UNCHANGED progress_callback
    /\ UNCHANGED <<rows, nextRow, index, url, attempt, result, extracted_counts, events,
                   written, attemptLog, retryDelays, politeDelays, rowOf, launchCalls,
                   closeCalls, scrapeVars>>
    /\ UNCHANGED totalRetryDelays

\* variant of Goto: a failed navigation goes on to the delay without page.close()
Goto_NoClose ==
    /\ pc = "goto"
    /\ \/ /\ Continue("locator")
          /\ UNCHANGED <<page, result, attemptLog>>
       \/ \E e \in ExcMsgs :
            /\ page' = [page EXCEPT !.gotoExc = e]
            /\ result' = ErrorPrefix \o e
            /\ attemptLog' = Append(attemptLog, result')
            /\ Continue("retry_delay")
    /\ UNCHANGED progress_callback
    /\ UNCHANGED <<rows, nextRow, index, url, attempt, brk, extracted_counts, openPages,
                   events, written, retryDelays, rowPages, politeDelays, rowOf,
                   launchCalls, closeCalls, scrapeVars>>
    /\ UNCHANGED <<totalPages, totalRetryDelays>>

\* lines 101-103 and 133-134: page.goto; what it raises is caught at line 133
Goto ==
    /\ pc = "goto"
    /\ \/ /\ Continue("locator")
          /\ UNCHANGED <<page, result, attemptLog>>
       \/ \E e \in ExcMsgs :
            /\ page' = [page EXCEPT !.gotoExc = e]
            /\ result' = ErrorPrefix \o e
            /\ attemptLog' = Append(attemptLog, result')
            /\ Continue("page_close")
    /\ UNCHANGED progress_callback
    /\ UNCHANGED <<rows, nextRow, index, url, attempt, brk, extracted_counts, openPages,
                   events, written, retryDelays, rowPages, politeDelays, rowOf,
                   launchCalls, closeCalls, scrapeVars>>
    /\ UNCHANGED <<totalPages, totalRetryDelays>>

\* lines 108-109 and 122: locator = page.locator(".ads-count-searchable"),
\* inside the inner try: the bare except at line 122 takes whatever it raises
Locator ==
    /\ pc = "locator"
    /\ \/ /\ Continue("wait_for")
          /\ UNCHANGED page
       \/ \E e \in ExcMsgs :
            /\ page' = [page EXCEPT !.locExc = e]
            /\ Continue("fallback_text")
    /\ UNCHANGED <<rows, progress_callback, nextRow, index, url, attempt, result, brk,
                   extracted_counts, openPages, events, written, attemptLog, retryDelays,
                   rowPages, politeDelays, rowOf, launchCalls, closeCalls, scrapeVars>>
    /\ UNCHANGED <<totalPages, totalRetryDelays>>

\* lines 110-111 and 122: locator.wait_for(state="visible"); the bare except
\* at line 122 takes whatever it raises
WaitFor ==
    /\ pc = "wait_for"
    /\ \/ /\ page' = [page EXCEPT !.visible = TRUE]
          /\ Continue("inner_text")
       \/ /\ page' = [page EXCEPT !.visible = FALSE]
          /\ Continue("fallback_text")
    /\ UNCHANGED progress_callback
    /\ UNCHANGED <<rows, nextRow, index, url, attempt, result, brk, extracted_counts,
                   openPages, events, written, attemptLog, retryDelays, rowPages,
                   politeDelays, rowOf, launchCalls, closeCalls, scrapeVars>>
    /\ UNCHANGED <<totalPages, totalRetryDelays>>

\* lines 113-120 and 122: text = locator.inner_text().strip(), the result and
\* the break; an exception of inner_text goes to the bare except
InnerText ==
    /\ pc = "inner_text"
    /\ \/ \E raw \in RawTexts :
            /\ page' = [page EXCEPT !.raw = raw]
            /\ result' = (IF Strip(raw) = ZeroAds THEN NoAds ELSE Strip(raw))
            /\ attemptLog' = Append(attemptLog, result')
            /\ brk' = TRUE
            /\ Continue("page_close")
       \/ /\ page' = [page EXCEPT !.textExc = TRUE]
          /\ Continue("fallback_text")
          /\ UNCHANGED <<result, attemptLog, brk>>
    /\ UNCHANGED progress_callback
    /\ UNCHANGED <<rows, nextRow, index, url, attempt, extracted_counts, openPages,
                   events, written, retryDelays, rowPages, politeDelays, rowOf,
                   launchCalls, closeCalls, scrapeVars>>
    /\ UNCHANGED <<totalPages, totalRetryDelays>>

\* variant of FallbackText: "No ads found" sets the result but does not break
FallbackText_NoBreak ==
    /\ pc = "fallback_text"
    /\ \/ \E c \in NoAdsCounts :
            /\ page' = [page EXCEPT !.noAdsCount = c, !.consulted = TRUE]
            /\ IF c > 0
               THEN /\ result' = NoAds
                    /\ attemptLog' = Append(attemptLog, result')
                    /\ Continue("page_close")
               ELSE /\ Continue("fallback_title")
                    /\ UNCHANGED <<result, attemptLog>>
       \/ \E e \in ExcMsgs :
            /\ page' = [page EXCEPT !.noAdsExc = e, !.consulted = TRUE]
            /\ result' = ErrorPrefix \o e
            /\ attemptLog' = Append(attemptLog, result')
            /\ Continue("page_close")
    /\ UNCHANGED progress_callback
    /\ UNCHANGED <<rows, nextRow, index, url, attempt, brk, extracted_counts, openPages,
                   events, written, retryDelays, rowPages, politeDelays, rowOf,
                   launchCalls, closeCalls, scrapeVars>>
    /\ UNCHANGED <<totalPages, totalRetryDelays>>

\* lines 124-126 and 133-134: page.get_by_text("No ads found").count() > 0
FallbackText ==
    /\ pc = "fallback_text"
    /\ \/ \E c \in NoAdsCounts :
            /\ page' = [page EXCEPT !.noAdsCount = c, !.consulted = TRUE]
            /\ IF c > 0
               THEN /\ result' = NoAds
                    /\ attemptLog' = Append(attemptLog, result')
                    /\ brk' = TRUE
                    /\ Continue("page_close")
               ELSE /\ Continue("fallback_title")
                    /\ UNCHANGED <<result, attemptLog, brk>>
       \/ \E e \in ExcMsgs :
            /\ page' = [page EXCEPT !.noAdsExc = e, !.consulted = TRUE]
            /\ result' = ErrorPrefix \o e
            /\ attemptLog' = Append(attemptLog, result')
            /\ Continue("page_close")
            /\ UNCHANGED brk
    /\ UNCHANGED progress_callback
    /\ UNCHANGED <<rows, nextRow, index, url, attempt, extracted_counts, openPages,
                   events, written, retryDelays, rowPages, politeDelays, rowOf,
                   launchCalls, closeCalls, scrapeVars>>
    /\ UNCHANGED <<totalPages, totalRetryDelays>>

\* variant of FallbackTitle: no else branch, so a title without "Google Ads"
\* leaves `result` as it was
FallbackTitle_NoElse ==
    /\ pc = "fallback_title"
    /\ \/ \E t \in Titles :
            /\ page' = [page EXCEPT !.title = t]
            /\ IF Contains(t, ProductName)
               THEN /\ result' = ElementNotFoundTimeout
                    /\ attemptLog' = Append(attemptLog, result')
               ELSE UNCHANGED <<result, attemptLog>>
       \/ \E e \in ExcMsgs :
            /\ page' = [page EXCEPT !.titleExc = e]
            /\ result' = ErrorPrefix \o e
            /\ attemptLog' = Append(attemptLog, result')
    /\ Continue("page_close")
    /\ UNCHANGED progress_callback
    /\ UNCHANGED <<rows, nextRow, index, url, attempt, brk, extracted_counts, openPages,
                   events, written, retryDelays, rowPages, politeDelays, rowOf,
                   launchCalls, closeCalls, scrapeVars>>
    /\ UNCHANGED <<totalPages, totalRetryDelays>>

\* lines 128-131 and 133-134: "Google Ads" in page.title()
FallbackTitle ==
    /\ pc = "fallback_title"
    /\ \/ \E t \in Titles :
            /\ page' = [page EXCEPT !.title = t]
            /\ result' = (IF Contains(t, ProductName)
                          THEN ElementNotFoundTimeout
                          ELSE PageLoadFailed)
       \/ \E e \in ExcMsgs :
            /\ page' = [page EXCEPT !.titleExc = e]
            /\ result' = ErrorPrefix \o e
    /\ attemptLog' = Append(attemptLog, result')
    /\ Continue("page_close")
    /\ UNCHANGED progress_callback
    /\ UNCHANGED <<rows, nextRow, index, url, attempt, brk, extracted_counts, openPages,
                   events, written, retryDelays, rowPages, politeDelays, rowOf,
                   launchCalls, closeCalls, scrapeVars>>
    /\ UNCHANGED <<totalPages, totalRetryDelays>>

\* lines 135-136: finally: page.close(); what it raises leaves process_csv
PageClose ==
    /\ pc = "page_close"
    /\ \/ /\ openPages' = openPages - 1
          /\ Continue(IF brk THEN "append" ELSE "retry_delay")
       \/ /\ Raise("page.close")
          /\ UNCHANGED openPages
    /\ UNCHANGED progress_callback
    /\ UNCHANGED <<rows, nextRow, index, url, attempt, result, brk, extracted_counts,
                   page, events, written, attemptLog, retryDelays, rowPages,
                   politeDelays, rowOf, launchCalls, closeCalls, scrapeVars>>
    /\ UNCHANGED <<totalPages, totalRetryDelays>>

\* variant of RetryDelay: time.sleep(2) after every failed attempt, the last included
RetryDelay_AlwaysSleep ==
    /\ pc = "retry_delay"
    /\ retryDelays' = retryDelays + 1
    /\ IF attempt + 1 < MaxRetries
       THEN /\ attempt' = attempt + 1
            /\ Continue("new_page")
       ELSE /\ Continue("append")
            /\ UNCHANGED attempt
    /\ UNCHANGED progress_callback
    /\ UNCHANGED <<rows, nextRow, index, url, result, brk, extracted_counts, openPages,
                   page, events, written, attemptLog, rowPages, politeDelays, rowOf,
                   launchCalls, closeCalls, scrapeVars>>
    /\ totalRetryDelays' = totalRetryDelays + (retryDelays' - retryDelays)
    /\ UNCHANGED totalPages

\* variant of RetryDelay: the attempt counter is not advanced (retry until success)
RetryDelay_Forever ==
    /\ pc = "retry_delay"
    /\ retryDelays' = (IF attempt < MaxRetries - 1 THEN retryDelays + 1 ELSE retryDelays)
    /\ Continue("new_page")
    /\ UNCHANGED progress_callback
    /\ UNCHANGED <<rows, nextRow, index, url, attempt, result, brk, extracted_counts,
                   openPages, page, events, written, attemptLog, rowPages, politeDelays,
                   rowOf, launchCalls, closeCalls, scrapeVars>>
    /\ totalRetryDelays' = totalRetryDelays + (retryDelays' - retryDelays)
    /\ UNCHANGED totalPages

\* lines 139-140, then the head of the retry loop (line 99): time.sleep(2)
\* unless this was the last attempt, then the next attempt or the end of the loop
RetryDelay ==
    /\ pc = "retry_delay"
    /\ retryDelays' = (IF attempt < MaxRetries - 1 THEN retryDelays + 1 ELSE retryDelays)
    /\ IF attempt + 1 < MaxRetries
       THEN /\ attempt' = attempt + 1
            /\ Continue("new_page")
       ELSE /\ Continue("append")
            /\ UNCHANGED attempt
    /\ UNCHANGED progress_callback
    /\ UNCHANGED <<rows, nextRow, index, url, result, brk, extracted_counts, openPages,
                   page, events, written, attemptLog, rowPages, politeDelays, rowOf,
                   launchCalls, closeCalls, scrapeVars>>
    /\ totalRetryDelays' = totalRetryDelays + (retryDelays' - retryDelays)
    /\ UNCHANGED totalPages

\* variant of AppendResult: the next row follows without the polite delay
AppendResult_NoDelay ==
    /\ pc = "append"
    /\ extracted_counts' = Append(extracted_counts, result)
    /\ rowOf' = Append(rowOf, index)
    /\ Continue("for_row")
    /\ UNCHANGED progress_callback
    /\ UNCHANGED <<rows, nextRow, index, url, attempt, result, brk, openPages, page,
                   events, written, attemptLog, retryDelays, rowPages, politeDelays,
                   launchCalls, closeCalls, scrapeVars>>
    /\ UNCHANGED <<totalPages, totalRetryDelays>>

\* variant of AppendResult: the table is saved after every recorded row
AppendResult_WritePartial ==
    /\ pc = "append"
    /\ extracted_counts' = Append(extracted_counts, result)
    /\ rowOf' = Append(rowOf, index)
    /\ written' = TRUE
    /\ Continue("polite_delay")
    /\ UNCHANGED progress_callback
    /\ UNCHANGED <<rows, nextRow, index, url, attempt, result, brk, openPages, page,
                   events, attemptLog, retryDelays, rowPages, politeDelays,
                   launchCalls, closeCalls, scrapeVars>>
    /\ UNCHANGED <<totalPages, totalRetryDelays>>

\* line 142: extracted_counts.append(result)
AppendResult ==
    /\ pc = "append"
    /\ extracted_counts' = Append(extracted_counts, result)
    /\ rowOf' = Append(rowOf, index)
    /\ Continue("polite_delay")
    /\ UNCHANGED progress_callback
    /\ UNCHANGED <<rows, nextRow, index, url, attempt, result, brk, openPages, page,
                   events, written, attemptLog, retryDelays, rowPages, politeDelays,
                   launchCalls, closeCalls, scrapeVars>>
    /\ UNCHANGED <<totalPages, totalRetryDelays>>

\* line 145: time.sleep(1)
PoliteDelay ==
    /\ pc = "polite_delay"
    /\ politeDelays' = politeDelays + 1
    /\ Continue("for_row")
    /\ UNCHANGED progress_callback
    /\ UNCHANGED <<rows, nextRow, index, url, attempt, result, brk, extracted_counts,
                   openPages, page, events, written, attemptLog, retryDelays, rowPages,
                   rowOf, launchCalls, closeCalls, scrapeVars>>
    /\ UNCHANGED <<totalPages, totalRetryDelays>>

\* line 147: browser.close()
BrowserClose ==
    /\ pc = "browser_close"
    /\ closeCalls' = closeCalls + 1
    /\ \/ /\ browser' = "closed"
          /\ pc' = "exit_playwright"
          /\ UNCHANGED raisedAt
       \/ Raise("browser.close")
    /\ UNCHANGED progress_callback
    /\ UNCHANGED <<rows, nextRow, index, url, attempt, result, brk, extracted_counts,
                   openPages, page, events, written, attemptLog, retryDelays, rowPages,
                   politeDelays, rowOf, launchCalls, scrapeVars>>
    /\ UNCHANGED <<totalPages, totalRetryDelays>>

\* line 82, after line 147: the end of the with block stops the driver; what
\* that raises leaves process_csv
ExitPlaywright ==
    /\ pc = "exit_playwright"
    /\ \/ Continue("assign")
       \/ Raise("with_exit")
    /\ UNCHANGED <<rows, progress_callback, nextRow, index, url, attempt, result, brk,
                   extracted_counts, openPages, page, events, written, attemptLog,
                   retryDelays, rowPages, politeDelays, rowOf, launchCalls, closeCalls,
                   scrapeVars>>
    /\ UNCHANGED <<totalPages, totalRetryDelays>>

\* line 149: df["number of ads"] = extracted_counts; pandas raises ValueError
\* when the list's length is not the number of rows
AssignColumn ==
    /\ pc = "assign"
    /\ IF Len(extracted_counts) = Len(rows)
       THEN Continue("to_csv")
       ELSE Raise("assign")
    /\ UNCHANGED progress_callback
    /\ UNCHANGED <<rows, nextRow, index, url, attempt, result, brk, extracted_counts,
                   openPages, page, events, written, attemptLog, retryDelays, rowPages,
                   politeDelays, rowOf, launchCalls, closeCalls, scrapeVars>>
    /\ UNCHANGED <<totalPages, totalRetryDelays>>

\* lines 151-152 and 155-156: df.to_csv(output_path, index=False)
ToCsv ==
    /\ pc = "to_csv"
    /\ \/ /\ written' = TRUE
          /\ Continue("done_progress")
       \/ /\ Raise("to_csv")
          /\ UNCHANGED written
    /\ UNCHANGED progress_callback
    /\ UNCHANGED <<rows, nextRow, index, url, attempt, result, brk, extracted_counts,
                   openPages, page, events, attemptLog, retryDelays, rowPages,
                   politeDelays, rowOf, launchCalls, closeCalls, scrapeVars>>
    /\ UNCHANGED <<totalPages, totalRetryDelays>>

\* variant of DoneProgress: no final invocation of the callback
DoneProgress_Silent ==
    /\ pc = "done_progress"
    /\ Continue("done")
    /\ UNCHANGED events
    /\ UNCHANGED progress_callback
    /\ UNCHANGED <<rows, nextRow, index, url, attempt, result, brk, extracted_counts,
                   openPages, page, written, attemptLog, retryDelays, rowPages,
                   politeDelays, rowOf, launchCalls, closeCalls, scrapeVars>>
    /\ UNCHANGED <<totalPages, totalRetryDelays>>

\* lines 153-156: progress_callback(len(df), len(df), "Done! ...") if a
\* callback was passed, inside the try statement of the write
DoneProgress ==
    /\ pc = "done_progress"
    /\ IF progress_callback
       THEN /\ events' = Append(events, Event(Len(rows), "Done"))
            /\ \/ Continue("done")
               \/ Raise("progress_callback")
       ELSE /\ UNCHANGED events
            /\ Continue("done")
    /\ UNCHANGED progress_callback
    /\ UNCHANGED <<rows, nextRow, index, url, attempt, result, brk, extracted_counts,
                   openPages, page, written, attemptLog, retryDelays, rowPages,
                   politeDelays, rowOf, launchCalls, closeCalls, scrapeVars>>
    /\ UNCHANGED <<totalPages, totalRetryDelays>>

CsvNext ==
    \/ ProgressStart
    \/ EnterPlaywright
    \/ Launch
    \/ NewContext
    \/ ForRow
    \/ RowProgress
    \/ Validate
    \/ NewPage
    \/ Goto
    \/ Locator
    \/ WaitFor
    \/ InnerText
    \/ FallbackText
    \/ FallbackTitle
    \/ PageClose
    \/ RetryDelay
    \/ AppendResult
    \/ PoliteDelay
    \/ BrowserClose
    \/ ExitPlaywright
    \/ AssignColumn
    \/ ToCsv
    \/ DoneProgress

\* a run is either one call of process_csv (src/scraper.py:168, src/app.py:70)
\* or one call of scrape_ads_count on a page
Init ==
    \/ CsvInit /\ ScrapeIdle
    \/ CsvIdle /\ ScrapeInit

Next ==
    \/ CsvNext
    \/ ScrapeCall

Spec == Init /\ [][Next]_vars

----------------------------------------------------------------------------
(* Vocabulary of the properties *)

\* "Error", the first word of every error string of the module
ErrorWord == Py("Error")

\* the result string is one of the module's error strings
IsError(r) == StartsWith(r, ErrorWord)

\* positions of process_csv inside one attempt of the retry loop
AttemptPcs == {"goto", "locator", "wait_for", "inner_text", "fallback_text", "fallback_title",
               "page_close"}

\* positions of process_csv after the row loop has ended normally
AfterLoopPcs == {"browser_close", "exit_playwright", "assign", "to_csv", "done_progress", "done"}

\* process_csv is running or has run (not the scrape_ads_count-only run)
CsvRun == pc # "idle"

\* the row being processed, or processed last, has a valid URL and its outcome
\* has just been appended
ValidRowRecorded == CsvRun /\ pc = "polite_delay"

Last(q) == q[Len(q)]

----------------------------------------------------------------------------
(* C1 *)

\* C1: the list of recorded outcomes grows by exactly one entry per row, entry i
\* being appended while row i is the current row; once the row loop has ended
\* (and at the return of process_csv) it has exactly one entry per input row,
\* whatever mix of invalid, successful and retry-exhausted rows the table holds.
C1_OneOutcomePerRow ==
    CsvRun =>
        /\ Len(rowOf) = Len(extracted_counts)
        /\ \A i \in 1..Len(extracted_counts) : rowOf[i] = i - 1
        /\ Len(extracted_counts) \in {nextRow - 1, nextRow} \cup {0}
        /\ pc \in {"for_row", "polite_delay"} => Len(extracted_counts) = nextRow
        /\ pc \in AfterLoopPcs => Len(extracted_counts) = Len(rows)
        /\ raisedAt # "assign"

\* a completed batch mixing an invalid row and a retry-exhausted row
C1_Witness ==
    /\ pc = "done"
    /\ Len(rows) = 2
    /\ InvalidUrl(rows[1])
    /\ ~InvalidUrl(rows[2])
    /\ Len(attemptLog) = MaxRetries
    /\ extracted_counts = <<InvalidUrlOutcome, PageLoadFailed>>

----------------------------------------------------------------------------
(* C2 *)

\* the claim's rows: the URL cell is missing, or its first four characters are
\* not "http"
MissingOrNoScheme(u) == u = NaN \/ Len(u) < 4 \/ SubSeq(u, 1, 4) # HttpScheme

\* C2: a row whose URL is missing (NaN) or does not start with "http" gets the
\* outcome "Invalid URL" with no attempt at all: no page opened, no navigation,
\* no inter-attempt delay; its progress event was emitted like any row's
\* (when a progress callback was passed).
C2_InvalidUrlRow ==
    CsvRun =>
        /\ \A i \in 1..Len(extracted_counts) :
             MissingOrNoScheme(rows[i]) => extracted_counts[i] = InvalidUrlOutcome
        /\ (nextRow > 0 /\ MissingOrNoScheme(rows[nextRow])) =>
             /\ rowPages = 0
             /\ retryDelays = 0
             /\ attemptLog = <<>>
             /\ pc \notin AttemptPcs \cup {"new_page", "retry_delay", "append", "polite_delay"}
             /\ (progress_callback /\ Len(extracted_counts) = nextRow) =>
                  \E k \in 1..Len(events) : events[k] = Event(nextRow, "Processing")

\* an invalid, non-empty URL ("ftp://...", "htt") has just been recorded
C2_Witness ==
    /\ pc = "for_row"
    /\ progress_callback
    /\ nextRow = 2
    /\ rows[nextRow] # NaN
    /\ MissingOrNoScheme(rows[nextRow])
    /\ ~MissingOrNoScheme(rows[1])
    /\ Len(extracted_counts) = nextRow
    /\ Last(extracted_counts) = InvalidUrlOutcome

----------------------------------------------------------------------------
(* C3 *)

\* C3: a valid-URL row whose every attempt fails makes exactly 3 attempts and
\* 2 inter-attempt delays (one before the second attempt, one before the third,
\* none after the third), and the outcome recorded is the third attempt's error.
C3_ExhaustedRetries ==
    /\ (CsvRun /\ pc \in AttemptPcs) =>
         /\ retryDelays = attempt
         /\ rowPages = attempt + 1
    /\ (ValidRowRecorded /\ \A k \in 1..Len(attemptLog) : IsError(attemptLog[k])) =>
         /\ Len(attemptLog) = 3
         /\ rowPages = 3
         /\ retryDelays = 2
         /\ Last(extracted_counts) = attemptLog[3]

\* three failed attempts with three different errors; the third one is recorded
C3_Witness ==
    /\ pc = "polite_delay"
    /\ Len(attemptLog) = 3
    /\ attemptLog[1] = (ErrorPrefix \o TargetClosed)
    /\ attemptLog[2] = PageLoadFailed
    /\ attemptLog[3] = ElementNotFoundTimeout
    /\ Last(extracted_counts) = ElementNotFoundTimeout
    /\ retryDelays = 2

----------------------------------------------------------------------------
(* C4 *)

\* C4: retrying stops at the first successful attempt: when a valid row's
\* outcome is recorded after k attempts, no attempt before the k-th succeeded,
\* exactly k pages were opened and k-1 inter-attempt delays were made, and a
\* row is never recorded after a failed attempt k < 3.
C4_StopAtFirstSuccess ==
    CsvRun =>
        /\ \A k \in 1..(Len(attemptLog) - 1) : IsError(attemptLog[k])
        /\ (pc \in {"new_page", "retry_delay"} \cup (AttemptPcs \ {"page_close"})) =>
             \A k \in 1..Len(attemptLog) : IsError(attemptLog[k])
        /\ pc = "page_close" => (brk <=> ~IsError(Last(attemptLog)))
        /\ pc \in {"append", "polite_delay"} =>
             /\ Len(attemptLog) \in 1..3
             /\ rowPages = Len(attemptLog)
             /\ retryDelays = Len(attemptLog) - 1
             /\ IsError(Last(attemptLog)) => Len(attemptLog) = 3
             /\ ~IsError(Last(attemptLog)) => result = Last(attemptLog)

\* the second attempt succeeds through the "No ads found" fallback
C4_Witness ==
    /\ pc = "polite_delay"
    /\ Len(attemptLog) = 2
    /\ IsError(attemptLog[1])
    /\ attemptLog[2] = NoAds
    /\ page.noAdsCount > 0
    /\ rowPages = 2
    /\ retryDelays = 1

----------------------------------------------------------------------------
(* C5 *)

\* the invocations made by the row loop (line 89)
RowEvents == SelectSeq(events, LAMBDA e : e.kind = "Processing")

\* the invocations that carry current >= 1
PositiveEvents == SelectSeq(events, LAMBDA e : e.current >= 1)

\* C5 as stated: over a complete batch the callback (when one was passed) is
\* invoked exactly once per row, the current values of the invocations with
\* current >= 1 being 1, 2, ..., n (strictly increasing, no value twice).
C5_Original ==
    (CsvRun /\ progress_callback /\ pc = "done") =>
        /\ Len(PositiveEvents) = Len(rows)
        /\ \A i \in 1..Len(PositiveEvents) : PositiveEvents[i].current = i

\* C5 amended: when a callback was passed, the row loop invokes it exactly once
\* per row, with current = 1, 2, ..., n in order and total = n in every
\* invocation; after the output is written one more invocation ("Done")
\* carries current = n, so over a complete batch of n >= 1 rows the value n is
\* carried twice. Without a callback there is no invocation at all.
C5_RowProgress ==
    /\ (CsvRun /\ ~progress_callback) => events = <<>>
    /\ (CsvRun /\ progress_callback) =>
        /\ \A k \in 1..Len(events) : events[k].total = Len(rows)
        /\ Len(RowEvents) = (IF pc = "row_progress" THEN nextRow - 1 ELSE nextRow)
        /\ \A i \in 1..Len(RowEvents) : RowEvents[i].current = i
        /\ pc = "done" =>
             /\ Len(RowEvents) = Len(rows)
             /\ PositiveEvents =
                  (IF Len(rows) = 0 THEN <<>>
                   ELSE RowEvents \o <<Event(Len(rows), "Done")>>)

\* a complete batch of two rows: current = 2 is carried by the second row's
\* invocation and again by the "Done" invocation
C5_Witness ==
    /\ pc = "done"
    /\ Len(rows) = 2
    /\ Len(events) = 4
    /\ events[2].current = 1
    /\ events[3].current = 2
    /\ events[4].current = 2

----------------------------------------------------------------------------
(* C6 *)

\* C6 as stated: over a complete batch of n rows the progress sink (when one
\* was passed) is invoked exactly n + 1 times.
C6_Original ==
    (CsvRun /\ progress_callback /\ pc = "done") => Len(events) = Len(rows) + 1

\* C6 amended: over a complete batch of n rows the progress sink (when one was
\* passed) is invoked exactly n + 2 times: once at the start with current = 0
\* before any row is processed, once per row, and once after the output is
\* written ("Done").
C6_ProgressInvocations ==
    (CsvRun /\ progress_callback) =>
        /\ pc = "start" => (events = <<>> /\ nextRow = 0 /\ launchCalls = 0)
        /\ pc # "start" => (Len(events) >= 1 /\ events[1] = Event(0, "Found"))
        /\ \A k \in 2..Len(events) : events[k].kind # "Found"
        /\ pc \in (AfterLoopPcs \ {"done"}) => Len(events) = Len(rows) + 1
        /\ pc = "done" =>
             /\ Len(events) = Len(rows) + 2
             /\ Last(events) = Event(Len(rows), "Done")
             /\ written

\* a complete batch of two rows with its four invocations
C6_Witness ==
    /\ pc = "done"
    /\ Len(rows) = 2
    /\ events = <<Event(0, "Found"), Event(1, "Processing"), Event(2, "Processing"),
                  Event(2, "Done")>>

----------------------------------------------------------------------------
(* C7 *)

\* C7 as stated: no failure arising while a row is processed (opening the
\* attempt's page, navigation, element wait, fallback checks, closing the page)
\* leaves process_csv; only the session start and the progress sink abort a batch
\* inside the row loop.
C7_RowFailuresIsolated ==
    (CsvRun /\ pc = "raised") => raisedAt \notin {"new_page", "page.close"}

----------------------------------------------------------------------------
(* C8 *)

\* C8: the browser is launched at most once and before any row is processed,
\* browser.close is called at most once and only when every row has its
\* outcome; pages are opened and used only while the browser is open; a failure
\* to acquire the session (the driver start, the launch or the new context)
\* ends the run at once, with at most one launch call and no row processed; a
\* run that reaches its end has launched once and closed once, however many
\* rows ended in an error, and no run ends with the browser still open (a run
\* ended by an exception releases it by leaving the with block).
C8_SessionLifecycle ==
    CsvRun =>
        /\ launchCalls <= 1
        /\ closeCalls <= 1
        /\ (nextRow > 0 \/ extracted_counts # <<>>) => launchCalls = 1
        /\ pc \in {"new_context", "for_row", "row_progress", "validate", "new_page",
                   "retry_delay", "append", "polite_delay"} \cup AttemptPcs =>
             browser = "open"
        /\ pc \in {"start", "playwright", "launch"} =>
             (browser = "none" /\ launchCalls = 0 /\ nextRow = 0)
        /\ (rowPages > 0 \/ openPages > 0) => launchCalls = 1
        /\ browser \in {"none", "closed", "stopped"} => pc \notin AttemptPcs \cup {"new_page"}
        /\ closeCalls = 1 =>
             /\ nextRow = Len(rows)
             /\ Len(extracted_counts) = Len(rows)
             /\ pc \notin AttemptPcs \cup {"new_page", "for_row", "row_progress", "validate"}
        /\ raisedAt \in {"sync_playwright", "launch", "new_context"} =>
             /\ pc = "raised"
             /\ launchCalls = (IF raisedAt = "sync_playwright" THEN 0 ELSE 1)
             /\ browser = (IF raisedAt = "new_context" THEN "stopped" ELSE "none")
             /\ nextRow = 0
             /\ extracted_counts = <<>>
             /\ rowPages = 0
             /\ closeCalls = 0
        /\ pc \in {"exit_playwright", "assign", "to_csv", "done_progress", "done"} =>
             /\ launchCalls = 1
             /\ closeCalls = 1
             /\ browser = "closed"
        /\ pc \in {"done", "raised"} => browser # "open"

\* a finished run of two rows, both ended in an error, with one launch and one close
C8_Witness ==
    /\ pc = "done"
    /\ Len(rows) = 2
    /\ IsError(extracted_counts[1])
    /\ IsError(extracted_counts[2])
    /\ launchCalls = 1
    /\ closeCalls = 1
    /\ browser = "closed"

----------------------------------------------------------------------------
(* C9 *)

\* C9 as stated: on a page whose count element never becomes visible, without
\* "No ads found" text and with a title containing "Google Ads",
\* scrape_ads_count returns the element-not-found error and never "no ads".
C9_TitleOnlyIsElementNotFound ==
    (/\ sPc = "returned"
     /\ sPage.gotoExc = NoExc
     /\ sPage.locExc = NoExc
     /\ ~sPage.visible
     /\ sPage.noAdsExc = NoExc
     /\ sPage.noAdsCount = 0
     /\ sPage.titleExc = NoExc
     /\ Contains(sPage.title, ProductName)) =>
        /\ sResult = ElementNotFound
        /\ sResult # NoAds

----------------------------------------------------------------------------
(* C10 *)

\* the pages that agree with pg on everything read before the fallback checks
SameUpToText(pg) ==
    {q \in Pages : /\ q.gotoExc = pg.gotoExc
                   /\ q.locExc = pg.locExc
                   /\ q.visible = pg.visible
                   /\ q.textExc = pg.textExc
                   /\ q.raw = pg.raw}

\* C10: when the count element becomes visible and its text is read, the result
\* is "no ads" exactly when the trimmed text is "0 ads" and the trimmed text
\* itself otherwise, in scrape_ads_count and in an attempt of the retry loop;
\* the "No ads found" and title checks play no part in it.
C10_VisibleCount ==
    /\ (/\ sPc = "returned"
        /\ sPage.gotoExc = NoExc
        /\ sPage.locExc = NoExc
        /\ sPage.visible
        /\ ~sPage.textExc) =>
         /\ sResult = NoAds <=> Strip(sPage.raw) = ZeroAds
         /\ sResult # NoAds => sResult = Strip(sPage.raw)
         /\ sPage.raw = ApproximatelyAds => sResult = ApproximatelyAds
         /\ sPage.raw \in {ZeroAds, PaddedZeroAds} => sResult = NoAds
         /\ sPage.raw = PaddedTenAds => sResult = TenAds
         /\ \A q \in SameUpToText(sPage) : ScrapeAdsCount(q) = sResult
    /\ (CsvRun /\ pc = "page_close" /\ page.visible /\ ~page.textExc) =>
         /\ page.locExc = NoExc
         /\ result = NoAds <=> Strip(page.raw) = ZeroAds
         /\ result # NoAds => result = Strip(page.raw)
         /\ page.raw = ApproximatelyAds => result = ApproximatelyAds
         /\ page.raw \in {ZeroAds, PaddedZeroAds} => result = NoAds
         /\ page.raw = PaddedTenAds => result = TenAds
         /\ ~page.consulted
         /\ brk
         /\ Last(attemptLog) = result

\* scrape_ads_count has returned "no ads" for a visible element whose text is
\* "0 ads" with surrounding white space, on a page that also shows
\* "No ads found"
C10_Witness ==
    /\ sPc = "returned"
    /\ sPage.gotoExc = NoExc
    /\ sPage.locExc = NoExc
    /\ sPage.visible
    /\ ~sPage.textExc
    /\ sPage.raw = PaddedZeroAds
    /\ sPage.noAdsCount = 2
    /\ sResult = NoAds

----------------------------------------------------------------------------
(* C11 *)

\* the pages that differ from pg at most in what page.title() does
SameButTitle(pg) ==
    {q \in Pages : /\ q.gotoExc = pg.gotoExc
                   /\ q.locExc = pg.locExc
                   /\ q.visible = pg.visible
                   /\ q.textExc = pg.textExc
                   /\ q.raw = pg.raw
                   /\ q.noAdsExc = pg.noAdsExc
                   /\ q.noAdsCount = pg.noAdsCount}

\* C11: when the count element does not become visible and the page holds a
\* "No ads found" text, the result is "no ads" whatever the title is, in
\* scrape_ads_count and in an attempt of the retry loop (where the attempt
\* also ends the retries and page.title() is not called).
C11_NoAdsFoundFallback ==
    /\ (/\ sPc = "returned"
        /\ sPage.gotoExc = NoExc
        /\ sPage.locExc = NoExc
        /\ ~sPage.visible
        /\ sPage.noAdsExc = NoExc
        /\ sPage.noAdsCount > 0) =>
         /\ sResult = NoAds
         /\ \A q \in SameButTitle(sPage) : ScrapeAdsCount(q) = NoAds
    /\ (/\ CsvRun
        /\ pc = "page_close"
        /\ ~page.visible
        /\ page.consulted
        /\ page.noAdsExc = NoExc
        /\ page.noAdsCount > 0) =>
         /\ result = NoAds
         /\ Last(attemptLog) = NoAds
         /\ brk
         /\ page.title = FreshPage.title
         /\ page.titleExc = NoExc

\* the third attempt of a row finds "No ads found" after the element wait
\* timed out
C11_Witness ==
    /\ pc = "page_close"
    /\ attempt = 2
    /\ page.gotoExc = NoExc
    /\ page.locExc = NoExc
    /\ ~page.visible
    /\ page.noAdsCount = 1
    /\ result = NoAds
    /\ brk

----------------------------------------------------------------------------
(* C13 *)

\* the result class of a result string of the retry loop (lines 113-134)
LoopClass(r) ==
    IF r = NoAds THEN "NoAds"
    ELSE IF r = ElementNotFoundTimeout THEN "ElementNotFound"
    ELSE IF r = PageLoadFailed THEN "ElementTimeout"
    ELSE IF StartsWith(r, ErrorPrefix) THEN "NavigationFailed"
    ELSE "Count"

\* the result class of a return value of scrape_ads_count (lines 25-43): its
\* last error string, returned when neither marker nor title is found, is the
\* class of step 4 of the detection order
ScrapeClass(r) ==
    IF r = NoAds THEN "NoAds"
    ELSE IF r = ElementNotFound THEN "ElementTimeout"
    ELSE IF StartsWith(r, LoadErrorPrefix) \/ StartsWith(r, ErrorPrefix)
         THEN "NavigationFailed"
    ELSE "Count"

\* C13 as stated: whatever the navigation, the element wait, the element's
\* text, the "No ads found" check and the title did on an attempt's page, the
\* attempt's result in the retry loop is of the same class as the value
\* scrape_ads_count returns for that page.
C13_SameDetection ==
    (CsvRun /\ pc = "page_close" /\ page.locExc = NoExc) =>
        LoopClass(result) = ScrapeClass(ScrapeAdsCount(page))

----------------------------------------------------------------------------
(* C14 *)

\* the row loop has just invoked the callback for the current row (line 89
\* has returned and line 91 is next)
RowCallbackReturned == CsvRun /\ progress_callback /\ pc = "validate"

\* C14 as stated: when the callback is invoked with current = i + 1, the
\* outcome list already holds i + 1 entries.
C14_Original ==
    RowCallbackReturned =>
        /\ Last(events).current = index + 1
        /\ Len(extracted_counts) = index + 1

\* C14 amended: the row loop invokes the callback with current = i + 1 before
\* row i is processed: at that moment the outcome list holds exactly i entries
\* (the outcomes of rows 0..i-1) and no attempt has been made for row i; row
\* i's outcome is recorded only afterwards, so the list never holds more
\* entries than the row loop has made invocations.
C14_ProgressBeforeRow ==
    /\ RowCallbackReturned =>
         /\ Last(events) = Event(index + 1, "Processing")
         /\ Len(extracted_counts) = index
         /\ rowPages = 0
         /\ attemptLog = <<>>
    /\ (CsvRun /\ progress_callback) =>
         /\ Len(extracted_counts) <= Len(RowEvents)
         /\ Len(RowEvents) <= Len(extracted_counts) + 1
         /\ (pc \in AttemptPcs \cup {"new_page", "retry_delay", "append"}) =>
              Len(extracted_counts) = Len(RowEvents) - 1

\* the callback has been invoked with current = 2 while only row 0 has an outcome
C14_Witness ==
    /\ progress_callback
    /\ pc = "validate"
    /\ index = 1
    /\ Last(events).current = 2
    /\ Len(extracted_counts) = 1
    /\ ~InvalidUrl(url)

----------------------------------------------------------------------------
(* C15 *)

\* the number of recorded outcomes that belong to rows with a valid URL
ValidRecorded ==
    Cardinality({i \in 1..Len(extracted_counts) : ~MissingOrNoScheme(rows[i])})

\* the row loop is about to take the next row (or to end)
BetweenRows == CsvRun /\ pc = "for_row"

\* C15 as stated: between the recording of a row's outcome and the first action
\* on the next row there is exactly one polite delay, for valid and invalid
\* rows alike: when the loop takes the next row, one delay has been made per
\* recorded outcome.
C15_Original == BetweenRows => politeDelays = Len(extracted_counts)

\* C15 amended: after the outcome of a row with a valid URL is recorded (success
\* or exhausted retries) exactly one polite delay occurs before the next row
\* begins; a row with an invalid URL is followed by the next row without any
\* delay.
C15_PoliteDelay ==
    CsvRun =>
        /\ politeDelays = (IF pc = "polite_delay" THEN ValidRecorded - 1 ELSE ValidRecorded)
        /\ pc = "polite_delay" => ~MissingOrNoScheme(rows[Len(extracted_counts)])
        /\ (BetweenRows /\ nextRow > 0 /\ MissingOrNoScheme(rows[nextRow])) =>
             /\ Len(extracted_counts) = nextRow
             /\ politeDelays = ValidRecorded
             /\ politeDelays < Len(extracted_counts)

\* a valid row (one delay) followed by an invalid row (no delay)
C15_Witness ==
    /\ pc = "for_row"
    /\ Len(extracted_counts) = 2
    /\ ~MissingOrNoScheme(rows[1])
    /\ MissingOrNoScheme(rows[2])
    /\ politeDelays = 1

----------------------------------------------------------------------------
(* C16 *)

\* C16: at most one page is open at any time; a page is open exactly while an
\* attempt is between its new_page and its page.close, and none is open during
\* the inter-attempt delay, when the next attempt's page is about to be opened,
\* when the row's outcome is recorded, between rows, when the browser is closed
\* or at the end of the batch.
C16_OnePageAtATime ==
    CsvRun =>
        /\ openPages \in {0, 1}
        /\ pc \in AttemptPcs => openPages = 1
        /\ pc \in {"start", "playwright", "launch", "new_context", "for_row",
                   "row_progress", "validate", "new_page", "retry_delay", "append",
                   "polite_delay"} \cup AfterLoopPcs =>
             openPages = 0
        /\ (pc = "raised" /\ openPages = 1) => raisedAt = "page.close"
        /\ Len(attemptLog) <= rowPages
        /\ pc \in {"retry_delay", "append", "polite_delay"} => Len(attemptLog) = rowPages

\* the first attempt of a row raised in page.goto, its page was closed and the
\* delay made: the second attempt's page is about to be opened with no page open
C16_Witness ==
    /\ pc = "new_page"
    /\ attempt = 1
    /\ rowPages = 1
    /\ retryDelays = 1
    /\ page.gotoExc # NoExc
    /\ openPages = 0

----------------------------------------------------------------------------
(* C17 *)

\* C17: every attempt assigns `result`, so when a valid row's outcome is
\* recorded it is the result of the last attempt made for the row, whatever
\* the earlier attempts gave; the placeholder of line 97 is never recorded.
C17_LastAttemptRecorded ==
    CsvRun =>
        /\ pc = "page_close" =>
             /\ Len(attemptLog) = rowPages
             /\ result = Last(attemptLog)
        /\ pc \in {"retry_delay", "append"} =>
             /\ Len(attemptLog) = rowPages
             /\ result = Last(attemptLog)
             /\ result # Placeholder
        /\ pc = "polite_delay" =>
             /\ Len(attemptLog) = rowPages
             /\ Last(extracted_counts) = Last(attemptLog)
        /\ \A i \in 1..Len(extracted_counts) : extracted_counts[i] # Placeholder

\* two failed attempts, then a count on the third: only the count is recorded
C17_Witness ==
    /\ pc = "polite_delay"
    /\ Len(attemptLog) = 3
    /\ attemptLog[1] = PageLoadFailed
    /\ attemptLog[2] = (ErrorPrefix \o TargetClosed)
    /\ attemptLog[3] = TenAds
    /\ Last(extracted_counts) = TenAds

----------------------------------------------------------------------------
(* C18 *)

\* rows with a valid URL among the rows the loop has taken so far
ValidStarted == Cardinality({i \in 1..nextRow : ~MissingOrNoScheme(rows[i])})

\* process_csv has ended, by returning or by an exception
Finished == pc \in {"done", "raised"}

\* steps left within the current attempt, by position
AttemptRank ==
    CASE pc = "new_page" -> 0
      [] pc = "goto" -> 1
      [] pc = "locator" -> 2
      [] pc = "wait_for" -> 3
      [] pc = "inner_text" -> 4
      [] pc = "fallback_text" -> 5
      [] pc = "fallback_title" -> 6
      [] pc = "page_close" -> 7
      [] pc = "retry_delay" -> 8

\* a bound on the number of steps process_csv can still take: 40 per row not
\* yet taken, 10 per attempt not yet begun
Rank ==
    CASE pc = "idle" -> (IF sPc = "call" THEN 1 ELSE 0)
      [] pc = "start" -> 40 * Len(rows) + 11
      [] pc = "playwright" -> 40 * Len(rows) + 10
      [] pc = "launch" -> 40 * Len(rows) + 9
      [] pc = "new_context" -> 40 * Len(rows) + 8
      [] pc = "for_row" -> 40 * (Len(rows) - nextRow) + 7
      [] pc = "row_progress" -> 40 * (Len(rows) - nextRow) + 42
      [] pc = "validate" -> 40 * (Len(rows) - nextRow) + 41
      [] pc \in AttemptPcs \cup {"new_page", "retry_delay"} ->
           40 * (Len(rows) - nextRow) + 40 - 10 * attempt - AttemptRank
      [] pc = "append" -> 40 * (Len(rows) - nextRow) + 9
      [] pc = "polite_delay" -> 40 * (Len(rows) - nextRow) + 8
      [] pc = "browser_close" -> 6
      [] pc = "exit_playwright" -> 5
      [] pc = "assign" -> 4
      [] pc = "to_csv" -> 3
      [] pc = "done_progress" -> 2
      [] pc = "done" -> 1
      [] pc = "raised" -> 0

\* C18: process_csv always ends: every step lowers a bound on the steps left,
\* and it can always take a step until it has returned or raised; when it
\* returns, every row has an outcome and the browser is closed. At every
\* moment the attempts made are at most 3 times, and the inter-attempt delays
\* at most 2 times, the number of valid-URL rows taken so far.
C18_TerminationAndBounds ==
    /\ [](CsvRun =>
            /\ Rank \in 0..(40 * Len(rows) + 11)
            /\ ~Finished => ENABLED CsvNext
            /\ pc = "done" =>
                 /\ Len(extracted_counts) = Len(rows)
                 /\ browser = "closed"
                 /\ nextRow = Len(rows)
            /\ totalPages <= 3 * ValidStarted
            /\ totalRetryDelays <= 2 * ValidStarted
            /\ rowPages <= 3
            /\ retryDelays <= 2)
    /\ [][Rank' < Rank]_vars

\* a finished batch of two valid rows, both with their retries exhausted: the
\* bounds are reached
C18_Witness ==
    /\ pc = "done"
    /\ Len(rows) = 2
    /\ ValidStarted = 2
    /\ totalPages = 6
    /\ totalRetryDelays = 4

----------------------------------------------------------------------------
(* C19 *)

\* C19: the output is written only when every row has its outcome and the
\* browser has been closed; a run that an exception ends earlier (session
\* start, a progress callback of the start or of a row, opening or closing a
\* page, closing the browser, leaving the with block, the write itself) has
\* written nothing; the "Done" progress event is the last event and is emitted
\* only after the write.
C19_WriteAfterAll ==
    CsvRun =>
        /\ written =>
             /\ Len(extracted_counts) = Len(rows)
             /\ nextRow = Len(rows)
             /\ closeCalls = 1
             /\ browser = "closed"
             /\ pc \in {"done_progress", "done", "raised"}
        /\ (pc = "raised" /\ raisedAt \in {"sync_playwright", "launch", "new_context",
                                          "new_page", "page.close", "browser.close",
                                          "with_exit", "assign", "to_csv"}) =>
             ~written
        /\ (pc = "raised" /\ raisedAt = "progress_callback"
              /\ Last(events).kind # "Done") => ~written
        /\ \A k \in 1..Len(events) :
             events[k].kind = "Done" => (written /\ k = Len(events))
        /\ pc = "done" => (written /\ (progress_callback => Last(events).kind = "Done"))

\* the batch is aborted on its second row, after the first row's outcome was
\* recorded: nothing is written
C19_Witness ==
    /\ pc = "raised"
    /\ raisedAt = "new_page"
    /\ Len(rows) = 2
    /\ Len(extracted_counts) = 1
    /\ ~IsError(extracted_counts[1])
    /\ extracted_counts[1] # InvalidUrlOutcome
    /\ ~written

====
